---- MODULE Spec2Model ----
(***************************************************************************)
(* Model of megablocks/backend/kernels.py: the host functions              *)
(* padded_gather / padded_scatter and the Triton kernel _padded_copy.      *)
(*                                                                         *)
(* Buffers are flat arrays addressed as the kernel addresses them          *)
(* (base + row * num_columns + offset).  One kernel program (task) per     *)
(* grid index; a task takes one step for its index computation and then    *)
(* one step per masked vector load and one per masked vector store, and    *)
(* the tasks' steps interleave freely.  Addresses are unbounded integers: *)
(* the source fixes no integer width for indices or offsets.               *)
(***************************************************************************)
EXTENDS Integers, Sequences, FiniteSets, TLC

VARIABLES op, x, indices, bin_ids, bins, padded_bins, BLOCK_X,
          pc, err, out, mem, grid, task, acc, callNo, m0

vars == <<op, x, indices, bin_ids, bins, padded_bins, BLOCK_X,
          pc, err, out, mem, grid, task, acc, callNo, m0>>

args == <<op, x, indices, bin_ids, bins, padded_bins, BLOCK_X>>

(***************************************************************************)
(* Bounds of the model.                                                    *)
(***************************************************************************)
\* Largest number of unpadded rows (tokens) of an enumerated call.
MaxT == 2
\* Largest number of columns (hidden size) of an enumerated call.
MaxH == 3
\* Largest number of cells of an enumerated unpadded matrix.
MaxCells == 6
\* Largest padding appended to one group.
MaxPad == 1

\* Numbers of groups (experts) of the enumerated calls.
GroupCounts == {1, 2}

\* The autotuner's chunk widths (64, 128, 256), scaled to the model's row
\* widths: a row of three columns takes three chunks of one lane, or two
\* chunks of two lanes with the second half masked.
BlockWidths == {1, 2}

\* What a torch.empty buffer may hold before it is written, and what a load
\* outside a buffer may return: some bits, here zero or a value no input holds.
StaleFills == {0, -1}

\* What an out-of-range load of an integer (metadata) vector may return.
GarbageInts == {0, 1}

(***************************************************************************)
(* Tensors: ndim, shape and flat row-major data indexed from 0.            *)
(***************************************************************************)
Vec(s) ==
  [ndim |-> 1, len |-> Len(s), data |-> [i \in 0..(Len(s) - 1) |-> s[i + 1]]]

\* A matrix all of whose cells differ and are positive.
DistinctMatrix(r, c) ==
  [ndim |-> 2, rows |-> r, cols |-> c,
   data |-> [a \in 0..(r * c - 1) |-> a + 1]]

\* torch.zeros((r, c)) / torch.empty((r, c)) with the given stale content.
Filled(r, c, v) ==
  [ndim |-> 2, rows |-> r, cols |-> c,
   data |-> [a \in 0..(r * c - 1) |-> v]]

(***************************************************************************)
(* Shape validation (kernels.py 6-18, 77-84, 102-108).                     *)
(***************************************************************************)
assert_is_matrix(t) == t.ndim = 2

assert_is_vector(t) == t.ndim = 1

assert_equal(a, b) == a = b

\* A faulty variant: the bin_ids length check left out.
GatherShapesOKNoBinIds(xx, ii, bb, bn, pb) ==
  /\ assert_is_matrix(xx)
  /\ assert_is_vector(ii)
  /\ assert_is_vector(bb)
  /\ assert_is_vector(bn)
  /\ assert_is_vector(pb)
  /\ assert_equal(ii.len, xx.rows)
  /\ assert_equal(bn.len, pb.len)

\* padded_gather's validation passes (no ValueError is raised).
GatherShapesOK(xx, ii, bb, bn, pb) ==
  /\ assert_is_matrix(xx)
  /\ assert_is_vector(ii)
  /\ assert_is_vector(bb)
  /\ assert_is_vector(bn)
  /\ assert_is_vector(pb)
  /\ assert_equal(ii.len, xx.rows)
  /\ assert_equal(bb.len, xx.rows)
  /\ assert_equal(bn.len, pb.len)

\* padded_scatter's validation passes.
ScatterShapesOK(xx, ii, bb, bn, pb) ==
  /\ assert_is_matrix(xx)
  /\ assert_is_vector(ii)
  /\ assert_is_vector(bb)
  /\ assert_is_vector(bn)
  /\ assert_is_vector(pb)
  /\ assert_equal(ii.len, bb.len)
  /\ assert_equal(bn.len, pb.len)

(***************************************************************************)
(* Output sizing (kernels.py 88-89, 110-113).                              *)
(***************************************************************************)
\* A faulty variant: the first padded bound instead of the last.
GatherOutputRowsFirst(pb) == pb.data[0]

\* output_rows = padded_bins[-1].cpu().item()
GatherOutputRows(pb) == pb.data[pb.len - 1]

\* A faulty variant: the row count taken from the padded input.
ScatterOutputRowsFromX(xx, ii) == xx.rows

\* out = torch.empty((indices.shape[0], x.shape[1]))
ScatterOutputRows(xx, ii) == ii.len

(***************************************************************************)
(* The kernel _padded_copy (kernels.py 32-68).                             *)
(***************************************************************************)
\* tl.load of one element of an integer vector.  A load outside the vector
\* is undefined and may return anything.
LoadInt(v, i) == IF i \in DOMAIN v.data THEN {v.data[i]} ELSE GarbageInts

\* A faulty variant: the indirection through indices forgotten.
IndexAIdentity(pid, ii) == {pid}

\* index_a = tl.load(indices + tl.program_id(0))
IndexA(pid, ii) == LoadInt(ii, pid)

\* bin_idx = tl.load(bin_ids + tl.program_id(0))
BinIdx(pid, bb) == LoadInt(bb, pid)

\* A faulty variant: the operands of the subtraction exchanged.
OffsetInBinSwapped(pid, bin_idx, bn) ==
  IF bin_idx > 0
    THEN {v - pid : v \in LoadInt(bn, bin_idx - 1)}
    ELSE {pid}

\* offset_in_bin = program_id; if bin_idx > 0: offset_in_bin -= bins[bin_idx-1]
OffsetInBin(pid, bin_idx, bn) ==
  IF bin_idx > 0
    THEN {pid - v : v \in LoadInt(bn, bin_idx - 1)}
    ELSE {pid}

\* A faulty variant: the group's padded start forgotten.
IndexBNoStart(offset_in_bin, bin_idx, pb) == {offset_in_bin}

\* A faulty variant: the group's own padded bound instead of its predecessor's.
IndexBOwnBound(offset_in_bin, bin_idx, pb) ==
  {offset_in_bin + v : v \in LoadInt(pb, bin_idx)}

\* index_b = offset_in_bin; if bin_idx > 0: index_b += padded_bins[bin_idx-1]
IndexB(offset_in_bin, bin_idx, pb) ==
  IF bin_idx > 0
    THEN {offset_in_bin + v : v \in LoadInt(pb, bin_idx - 1)}
    ELSE {offset_in_bin}

\* A faulty variant: the output pointer not swapped with the direction.
OptrNotSwapped(a, b, A_TO_B) == b

\* iptr = a if A_TO_B else b
Iptr(a, b, A_TO_B) == IF A_TO_B THEN a ELSE b

\* optr = b if A_TO_B else a
Optr(a, b, A_TO_B) == IF A_TO_B THEN b ELSE a

\* A faulty variant: the division rounded down.
CdivFloor(n, d) == n \div d

\* tl.cdiv(num_columns, BLOCK_X)
Cdiv(n, d) == (n + d - 1) \div d

\* mask = offsets < num_columns, for one lane
Mask(offset, num_columns) == offset < num_columns

A_TO_B == op = "gather"

num_columns == x.cols

Lanes == 0..(BLOCK_X - 1)

\* The lanes of task t's current chunk that the mask lets through.
ActiveLanes(t) == {l \in Lanes : Mask(t.offsets + l, num_columns)}

\* The flat address lane l of pointer ptr touches.
LaneAddr(ptr, t, l) == ptr.addr + t.offsets + l

InBuffer(ptr, a) == a \in DOMAIN mem[ptr.buf]

\* The active lanes in increasing order, as accesses of the given kind.
LaneAccesses(kind, ptr, t) ==
  LET all == [k \in 1..BLOCK_X |->
                [kind |-> kind, buf |-> ptr.buf, addr |-> LaneAddr(ptr, t, k - 1),
                 base |-> ptr.addr, lane |-> k - 1]]
  IN SelectSeq(all, LAMBDA r : r.lane \in ActiveLanes(t))

NewTask ==
  [pc |-> "init", index_a |-> 0, index_b |-> 0, bin_idx |-> 0,
   iptr |-> [buf |-> "a", addr |-> 0], optr |-> [buf |-> "a", addr |-> 0],
   offsets |-> 0, i |-> 0, iterations |-> 0,
   xr |-> [l \in Lanes |-> 0]]

\* Lines 35-62: the index arithmetic and the pointer set-up of task p.
TaskSetup(p) ==
  /\ pc = "running"
  /\ p \in DOMAIN task
  /\ task[p].pc = "init"
  /\ \E index_a \in IndexA(p, indices), bin_idx \in BinIdx(p, bin_ids) :
       \E offset_in_bin \in OffsetInBin(p, bin_idx, bins) :
         \E index_b \in IndexB(offset_in_bin, bin_idx, padded_bins) :
           LET a == [buf |-> "a", addr |-> index_a * num_columns]
               b == [buf |-> "b", addr |-> index_b * num_columns]
               iterations == Cdiv(num_columns, BLOCK_X)
           IN task' = [task EXCEPT ![p] =
                         [@ EXCEPT !.pc = IF iterations > 0 THEN "load" ELSE "done",
                                   !.index_a = index_a,
                                   !.index_b = index_b,
                                   !.bin_idx = bin_idx,
                                   !.iptr = Iptr(a, b, A_TO_B),
                                   !.optr = Optr(a, b, A_TO_B),
                                   !.iterations = iterations]]
  /\ UNCHANGED <<args, pc, err, out, mem, grid, acc, callNo, m0>>

\* Line 65: x = tl.load(iptr + offsets, mask=mask).  A masked-off lane is
\* not loaded (its register content is never stored); a lane outside the
\* buffer returns anything.
TaskLoad(p) ==
  /\ pc = "running"
  /\ p \in DOMAIN task
  /\ task[p].pc = "load"
  /\ LET t == task[p]
         oob == {l \in ActiveLanes(t) : ~InBuffer(t.iptr, LaneAddr(t.iptr, t, l))}
     IN \E g \in [oob -> StaleFills] :
          /\ task' = [task EXCEPT ![p] =
               [@ EXCEPT !.pc = "store",
                         !.xr = [l \in Lanes |->
                                   IF l \notin ActiveLanes(t) THEN 0
                                   ELSE IF l \in oob THEN g[l]
                                   ELSE mem[t.iptr.buf][LaneAddr(t.iptr, t, l)]]]]
          /\ acc' = [acc EXCEPT ![p] = @ \o LaneAccesses("load", t.iptr, t)]
  /\ UNCHANGED <<args, pc, err, out, mem, grid, callNo, m0>>

\* Lines 66-68: tl.store(optr + offsets, x, mask=mask); offsets += BLOCK_X;
\* and the loop's exit after `iterations` rounds.  A store outside the
\* buffers lands in memory the model does not hold.
TaskStore(p) ==
  /\ pc = "running"
  /\ p \in DOMAIN task
  /\ task[p].pc = "store"
  /\ LET t == task[p]
         buf == t.optr.buf
         hit(a) == {l \in ActiveLanes(t) : LaneAddr(t.optr, t, l) = a}
     IN /\ mem' = [mem EXCEPT ![buf] =
                     [a \in DOMAIN @ |->
                        IF hit(a) # {} THEN t.xr[CHOOSE l \in hit(a) : TRUE]
                        ELSE @[a]]]
        /\ acc' = [acc EXCEPT ![p] = @ \o LaneAccesses("store", t.optr, t)]
        /\ task' = [task EXCEPT ![p] =
             [@ EXCEPT !.pc = IF t.i + 1 < t.iterations THEN "load" ELSE "done",
                       !.i = t.i + 1,
                       !.offsets = t.offsets + BLOCK_X]]
  /\ UNCHANGED <<args, pc, err, out, grid, callNo, m0>>

\* An access outside the buffers may also abort the kernel (an illegal
\* memory access reported by the device) instead of going through.
TaskFault(p) ==
  /\ pc = "running"
  /\ p \in DOMAIN task
  /\ LET t == task[p]
     IN \/ /\ t.pc = "load"
           /\ \E l \in ActiveLanes(t) : ~InBuffer(t.iptr, LaneAddr(t.iptr, t, l))
        \/ /\ t.pc = "store"
           /\ \E l \in ActiveLanes(t) : ~InBuffer(t.optr, LaneAddr(t.optr, t, l))
  /\ pc' = "faulted"
  /\ err' = "IllegalMemoryAccess"
  /\ UNCHANGED <<args, out, mem, grid, task, acc, callNo, m0>>

(***************************************************************************)
(* The host functions (kernels.py 75-92, 100-116).                         *)
(***************************************************************************)
Raise(e) ==
  /\ pc' = "raised"
  /\ err' = e
  /\ UNCHANGED <<args, out, mem, grid, task, acc, callNo, m0>>

\* The launch of _padded_copy on a grid of n programs over buffers a and b.
Launch(n, a, b, shape) ==
  /\ pc' = "running"
  /\ out' = shape
  /\ mem' = [a |-> a, b |-> b]
  /\ grid' = n
  /\ task' = [p \in 0..(n - 1) |-> NewTask]
  /\ acc' = [p \in 0..(n - 1) |-> <<>>]
  /\ UNCHANGED <<args, err, callNo, m0>>

\* padded_gather: validation, the load of padded_bins[-1] (an IndexError on
\* an empty vector), torch.zeros, and the launch on x.shape[0] programs.
PaddedGather ==
  /\ pc = "call"
  /\ op = "gather"
  /\ IF ~GatherShapesOK(x, indices, bin_ids, bins, padded_bins)
       THEN Raise("ValueError")
     ELSE IF padded_bins.len = 0
       THEN Raise("IndexError")
     ELSE LET output_rows == GatherOutputRows(padded_bins)
              o == Filled(output_rows, x.cols, 0)
          IN Launch(x.rows, x.data, o.data,
                    [alloc |-> TRUE, rows |-> o.rows, cols |-> o.cols])

\* padded_scatter: validation, torch.empty (whatever the memory held), and
\* the launch on out.shape[0] programs.
PaddedScatter ==
  /\ pc = "call"
  /\ op = "scatter"
  /\ IF ~ScatterShapesOK(x, indices, bin_ids, bins, padded_bins)
       THEN Raise("ValueError")
     ELSE \E stale \in StaleFills :
            LET o == Filled(ScatterOutputRows(x, indices), x.cols, stale)
            IN Launch(o.rows, o.data, x.data,
                      [alloc |-> TRUE, rows |-> o.rows, cols |-> o.cols])

\* All programs of the grid have finished: the output is the caller's.
KernelComplete ==
  /\ pc = "running"
  /\ \A p \in DOMAIN task : task[p].pc = "done"
  /\ pc' = "returned"
  /\ UNCHANGED <<args, err, out, mem, grid, task, acc, callNo, m0>>

\* The returned matrix.
OutData == IF op = "gather" THEN mem.b ELSE mem.a

Out == [ndim |-> 2, rows |-> out.rows, cols |-> out.cols, data |-> OutData]

NoOut == [alloc |-> FALSE, rows |-> 0, cols |-> 0]

NoMem == [a |-> <<>>, b |-> <<>>]

\* The caller's round trip: padded_scatter applied to what padded_gather
\* returned, with the same four metadata vectors.
ScatterGathered ==
  /\ pc = "returned"
  /\ op = "gather"
  /\ callNo = 1
  /\ op' = "scatter"
  /\ x' = Out
  /\ callNo' = 2
  /\ pc' = "call"
  /\ out' = NoOut
  /\ mem' = NoMem
  /\ grid' = 0
  /\ task' = <<>>
  /\ acc' = <<>>
  /\ UNCHANGED <<indices, bin_ids, bins, padded_bins, BLOCK_X, err, m0>>

(***************************************************************************)
(* The calls the model enumerates.                                         *)
(***************************************************************************)
Call(o, xx, ii, bb, bn, pb, bx) ==
  [op |-> o, x |-> xx, indices |-> ii, bin_ids |-> bb, bins |-> bn,
   padded_bins |-> pb, BLOCK_X |-> bx]

VecFn(n, f) == [ndim |-> 1, len |-> n, data |-> f]

\* The permutations of 0..n-1.
Perms(n) ==
  {f \in [0..(n - 1) -> 0..(n - 1)] :
     \A i, j \in 0..(n - 1) : i # j => f[i] # f[j]}

\* The group assignments of n tasks to e groups, sorted by group.
SortedBinIds(n, e) ==
  {f \in [0..(n - 1) -> 0..(e - 1)] :
     \A i, j \in 0..(n - 1) : i < j => f[i] <= f[j]}

\* bins: the cumulative number of tasks in groups 0..k.
BinsOf(b, n, e) ==
  [k \in 0..(e - 1) |-> Cardinality({i \in 0..(n - 1) : b[i] <= k})]

RECURSIVE SumTo(_, _)
SumTo(f, k) == IF k < 0 THEN 0 ELSE f[k] + SumTo(f, k - 1)

\* padded_bins: the cumulative group sizes, each with its padding.
PaddedOf(bn, pad, e) == [k \in 0..(e - 1) |-> bn[k] + SumTo(pad, k)]

\* Metadata as the router produces it, for n tasks and e groups.
ValidMetas(n, e) ==
  {[indices |-> VecFn(n, ix), bin_ids |-> VecFn(n, b),
    bins |-> VecFn(e, BinsOf(b, n, e)),
    padded_bins |-> VecFn(e, PaddedOf(BinsOf(b, n, e), pad, e))] :
     ix \in Perms(n), b \in SortedBinIds(n, e), pad \in [0..(e - 1) -> 0..MaxPad]}

LastOf(v) == v.data[v.len - 1]

\* The row widths enumerated for a matrix of n rows.
Widths(n) == {h \in 0..MaxH : n * h <= MaxCells}

\* Calls with metadata that meets the kernel's preconditions: gathers of a
\* matrix of n rows (whose result the caller may scatter back), and scatters
\* of a padded matrix that has one row more than the padded row count.
ValidCalls ==
  UNION {
    {Call("gather", DistinctMatrix(n, h), m.indices, m.bin_ids, m.bins,
          m.padded_bins, bx) :
       m \in ValidMetas(n, e), h \in Widths(n), bx \in BlockWidths}
    \cup
    {Call("scatter", DistinctMatrix(LastOf(m.padded_bins) + 1, h),
          m.indices, m.bin_ids, m.bins, m.padded_bins, bx) :
       m \in ValidMetas(n, e), h \in Widths(n), bx \in BlockWidths} :
    n \in 0..MaxT, e \in GroupCounts}

\* Metadata that breaks one precondition: an index beyond the last row,
\* group ids that are not sorted, padded bounds below the real ones.
FaultyMetas(n, e) ==
  UNION {
    {[m EXCEPT !.indices.data[j] = n] : j \in 0..(n - 1)}
    \cup
    {[m EXCEPT !.bin_ids.data = [i \in 0..(n - 1) |-> m.bin_ids.data[n - 1 - i]]]}
    \cup
    {[m EXCEPT !.padded_bins.data =
                 [k \in 0..(e - 1) |->
                    IF m.bins.data[k] > 0 THEN m.bins.data[k] - 1 ELSE 0]]} :
    m \in ValidMetas(n, e)}

\* Calls that break a precondition the code does not check, on rows of one
\* column: faulty metadata, or a padded input one row short.
FaultyCalls ==
  UNION {
    {Call("gather", DistinctMatrix(n, 1), m.indices, m.bin_ids, m.bins,
          m.padded_bins, 1) : m \in FaultyMetas(n, e)}
    \cup
    {Call("scatter", DistinctMatrix(LastOf(m.padded_bins), 1), m.indices,
          m.bin_ids, m.bins, m.padded_bins, 1) : m \in FaultyMetas(n, e)}
    \cup
    {Call("scatter", DistinctMatrix(LastOf(m.padded_bins) - 1, 1), m.indices,
          m.bin_ids, m.bins, m.padded_bins, 1) :
       m \in {v \in ValidMetas(n, e) : LastOf(v.padded_bins) > 0}} :
    n \in {1, 2}, e \in GroupCounts}

ZeroVec(nd, n) == [ndim |-> nd, len |-> n, data |-> [i \in 0..(n - 1) |-> 0]]

\* Calls of every rank and length combination, rows of one column.
ShapeCalls ==
  {Call(o, [DistinctMatrix(xr, 1) EXCEPT !.ndim = xn], ZeroVec(vn[1], il),
        ZeroVec(vn[2], bl), ZeroVec(vn[3], nl), ZeroVec(vn[4], pl), 1) :
     o \in {"gather", "scatter"}, xn \in {1, 2, 3},
     vn \in [1..4 -> {1, 2}],
     xr \in {0, 1}, il \in {0, 1}, bl \in {0, 1}, nl \in {0, 1, 2},
     pl \in {0, 1, 2}}

\* The specification's first example: four rows of two columns, two
\* groups of two rows, one row of padding after the first group.
RowsMatrix(rws) ==
  [ndim |-> 2, rows |-> Len(rws), cols |-> Len(rws[1]),
   data |-> [a \in 0..(Len(rws) * Len(rws[1]) - 1) |->
               rws[(a \div Len(rws[1])) + 1][(a % Len(rws[1])) + 1]]]

Scenario1 ==
  Call("gather", RowsMatrix(<<<<1, 1>>, <<2, 2>>, <<3, 3>>, <<4, 4>>>>),
       Vec(<<0, 1, 2, 3>>), Vec(<<0, 0, 1, 1>>), Vec(<<2, 4>>), Vec(<<3, 5>>), 2)

Calls == ValidCalls \cup FaultyCalls \cup ShapeCalls \cup {Scenario1}

Init ==
  \E c \in Calls :
    /\ op = c.op
    /\ x = c.x
    /\ indices = c.indices
    /\ bin_ids = c.bin_ids
    /\ bins = c.bins
    /\ padded_bins = c.padded_bins
    /\ BLOCK_X = c.BLOCK_X
    /\ pc = "call"
    /\ err = "none"
    /\ out = NoOut
    /\ mem = NoMem
    /\ grid = 0
    /\ task = <<>>
    /\ acc = <<>>
    /\ callNo = 1
    /\ m0 = c.x

Next ==
  \/ PaddedGather
  \/ PaddedScatter
  \/ \E p \in 0..(grid - 1) : TaskSetup(p)
  \/ \E p \in 0..(grid - 1) : TaskLoad(p)
  \/ \E p \in 0..(grid - 1) : TaskStore(p)
  \/ \E p \in 0..(grid - 1) : TaskFault(p)
  \/ KernelComplete
  \/ ScatterGathered

Spec == Init /\ [][Next]_vars

(***************************************************************************)
(* Vocabulary of the properties.                                           *)
(***************************************************************************)
T == indices.len

E == bins.len

H == x.cols

Started == pc \in {"running", "returned", "faulted"}

\* v[k-1], read as 0 for k = 0.
PrevOf(v, k) == IF k > 0 THEN v.data[k - 1] ELSE 0

GroupSize(k) == bins.data[k] - PrevOf(bins, k)

\* The number of rows of the padded buffer of the current call.
PaddedRows == IF op = "gather" THEN out.rows ELSE x.rows

\* The metadata preconditions: indices a permutation of 0..T-1, bin_ids
\* sorted, bins the cumulative group counts, every padded group at least
\* as large as the group, and a padded input that holds the padded rows.
ValidMeta ==
  /\ x.ndim = 2 /\ indices.ndim = 1 /\ bin_ids.ndim = 1
  /\ bins.ndim = 1 /\ padded_bins.ndim = 1
  /\ bin_ids.len = T
  /\ padded_bins.len = E
  /\ E >= 1
  /\ \A i \in 0..(T - 1) : indices.data[i] \in 0..(T - 1)
  /\ \A i, j \in 0..(T - 1) : i # j => indices.data[i] # indices.data[j]
  /\ \A i \in 0..(T - 1) : bin_ids.data[i] \in 0..(E - 1)
  /\ \A i, j \in 0..(T - 1) : i < j => bin_ids.data[i] <= bin_ids.data[j]
  /\ \A k \in 0..(E - 1) :
       bins.data[k] = Cardinality({i \in 0..(T - 1) : bin_ids.data[i] <= k})
  /\ bins.data[E - 1] = T
  /\ \A k \in 0..(E - 1) :
       padded_bins.data[k] - PrevOf(padded_bins, k) >= GroupSize(k)
  /\ IF op = "gather" THEN x.rows = T ELSE x.rows >= LastOf(padded_bins)

\* The padded row of task i: its rank in its group plus the group's
\* padded start.
BRow(i) ==
  (i - PrevOf(bins, bin_ids.data[i])) + PrevOf(padded_bins, bin_ids.data[i])

\* Row r lies in no group's range of real rows.
IsPaddingRow(r) ==
  ~ \E k \in 0..(E - 1) :
      /\ PrevOf(padded_bins, k) <= r
      /\ r < PrevOf(padded_bins, k) + GroupSize(k)

\* The rows of the padded buffer that lie in no group's range of real rows.
PaddingRows == {r \in 0..(PaddedRows - 1) : IsPaddingRow(r)}

\* The result of a call with valid metadata, as a function of its inputs
\* alone (neither BLOCK_X nor the schedule).
ExpectedGather ==
  [a \in 0..(LastOf(padded_bins) * H - 1) |->
     IF \E i \in 0..(T - 1) : BRow(i) = a \div H
       THEN LET i == CHOOSE i \in 0..(T - 1) : BRow(i) = a \div H
            IN x.data[indices.data[i] * H + (a % H)]
       ELSE 0]

ExpectedScatter ==
  [a \in 0..(T * H - 1) |->
     LET i == CHOOSE i \in 0..(T - 1) : indices.data[i] = a \div H
     IN x.data[BRow(i) * H + (a % H)]]

Expected == IF op = "gather" THEN ExpectedGather ELSE ExpectedScatter

Accesses(p) == {acc[p][n] : n \in 1..Len(acc[p])}

Stores(p) == {r \in Accesses(p) : r.kind = "store"}

Place(r) == <<r.buf, r.addr>>

\* The least n with n * d >= h.
CeilDiv(h, d) ==
  CHOOSE n \in 0..h : n * d >= h /\ \A m \in 0..(n - 1) : m * d < h

(***************************************************************************)
(* C1.  Inverse law: with valid metadata, padded_scatter applied to the     *)
(* result of padded_gather, with the same metadata, returns the original   *)
(* matrix row for row, whatever the order in which the tasks of the two    *)
(* calls ran.                                                              *)
(***************************************************************************)
InverseLaw ==
  (pc = "returned" /\ callNo = 2 /\ ValidMeta) => Out = m0

InverseLawWitness ==
  /\ pc = "returned" /\ callNo = 2 /\ ValidMeta
  /\ T = 2 /\ H = 2
  /\ indices.data[0] = 1
  /\ x.rows > T
  /\ out.rows = T

(***************************************************************************)
(* C2.  Padding isolation: with valid metadata, the rows of the padded     *)
(* buffer outside every group's range of real rows hold zero throughout    *)
(* and after padded_gather, no gather task stores to them, and no scatter  *)
(* task loads from them.                                                   *)
(***************************************************************************)
PaddingIsolation ==
  (Started /\ ValidMeta) =>
    /\ \A p \in DOMAIN acc : \A n \in 1..Len(acc[p]) :
         acc[p][n].buf = "b" => ~IsPaddingRow(acc[p][n].addr \div H)
    /\ op = "gather" =>
         \A r \in 0..(PaddedRows - 1) :
           IsPaddingRow(r) => \A c \in 0..(H - 1) : mem.b[r * H + c] = 0

PaddingIsolationWitness ==
  /\ ValidMeta /\ pc = "returned" /\ op = "gather"
  /\ T = 2 /\ E = 2 /\ H >= 1
  /\ Cardinality(PaddingRows) = 2
  /\ \A p \in DOMAIN task : Stores(p) # {}

PaddingNotReadWitness ==
  /\ ValidMeta /\ pc = "returned" /\ op = "scatter" /\ callNo = 1
  /\ T = 2 /\ H >= 1
  /\ Cardinality(PaddingRows) = 3

(***************************************************************************)
(* C3.  Group contiguity.  The padded rows that hold the rows of one group *)
(* after padded_gather.                                                    *)
(***************************************************************************)
\* Padded row r holds unpadded row u of the input.
Holds(r, u) ==
  /\ H > 0
  /\ r \in 0..(out.rows - 1)
  /\ \A c \in 0..(H - 1) : mem.b[r * H + c] = x.data[u * H + c]

RowsOfGroup(k) ==
  {r \in 0..(out.rows - 1) :
     \E i \in 0..(T - 1) : bin_ids.data[i] = k /\ Holds(r, indices.data[i])}

IsSpan(S, n) ==
  /\ Cardinality(S) = n
  /\ \A r, q \in S : \A m \in r..q : m \in S

Gathered == pc = "returned" /\ op = "gather" /\ H > 0 /\ ValidMeta

\* C3 as stated: each group's rows occupy one contiguous span, and of two
\* rows of one group the one with the smaller unpadded row position has the
\* smaller padded row position.
GroupContiguityByUnpaddedRow ==
  Gathered =>
    /\ \A k \in 0..(E - 1) : IsSpan(RowsOfGroup(k), GroupSize(k))
    /\ \A i, j \in 0..(T - 1) : \A r, q \in 0..(out.rows - 1) :
         (/\ bin_ids.data[i] = bin_ids.data[j]
          /\ indices.data[i] < indices.data[j]
          /\ Holds(r, indices.data[i]) /\ Holds(q, indices.data[j])) => r < q

\* C3 as amended: each group's rows occupy one contiguous span, and of two
\* rows of one group the one of the task with the smaller id has the
\* smaller padded row position.
GroupContiguityByTask ==
  Gathered =>
    /\ \A k \in 0..(E - 1) : IsSpan(RowsOfGroup(k), GroupSize(k))
    /\ \A i, j \in 0..(T - 1) : \A r, q \in 0..(out.rows - 1) :
         (/\ bin_ids.data[i] = bin_ids.data[j]
          /\ i < j
          /\ Holds(r, indices.data[i]) /\ Holds(q, indices.data[j])) => r < q

GroupContiguityWitness ==
  /\ Gathered
  /\ T = 2 /\ E = 2
  /\ bin_ids.data[0] = 1 /\ bin_ids.data[1] = 1
  /\ indices.data[0] = 1 /\ indices.data[1] = 0
  /\ PrevOf(padded_bins, 1) = 1
  /\ RowsOfGroup(1) = {1, 2}

(***************************************************************************)
(* C4.  Conflict-free parallel execution: with valid metadata no two tasks *)
(* have the same destination row or store to the same place, no task loads *)
(* from a place another task stores to, and the returned buffer is the     *)
(* same function of the inputs after every interleaving.                   *)
(***************************************************************************)
DestRow(p) == IF op = "gather" THEN task[p].index_b ELSE task[p].index_a

ConflictFree ==
  (Started /\ ValidMeta) =>
    /\ \A p, q \in DOMAIN task :
         (p # q /\ task[p].pc # "init" /\ task[q].pc # "init") =>
           /\ DestRow(p) # DestRow(q)
           /\ \A r \in Accesses(p) : \A w \in Stores(q) : Place(r) # Place(w)
    /\ pc = "returned" => OutData = Expected

ConflictFreeWitness ==
  /\ ValidMeta /\ pc = "running"
  /\ T = 2 /\ E = 2 /\ H = 2 /\ BLOCK_X = 1
  /\ bin_ids.data[0] = 0 /\ bin_ids.data[1] = 1
  /\ task[0].pc = "store" /\ task[0].i = 1
  /\ task[1].pc = "store" /\ task[1].i = 0

(***************************************************************************)
(* C5.  Memory safety whatever the metadata: every load and store of a     *)
(* task addresses an element of the buffer its pointer belongs to, and no  *)
(* kernel aborts on an illegal access.                                     *)
(***************************************************************************)
MemorySafe ==
  /\ pc # "faulted"
  /\ \A p \in DOMAIN acc : \A r \in Accesses(p) : r.addr \in DOMAIN mem[r.buf]

(***************************************************************************)
(* C6.  Shape errors are rejected before dispatch: a call with a wrong     *)
(* rank or with disagreeing lengths raises, allocates no output and        *)
(* dispatches no task.                                                     *)
(***************************************************************************)
ShapeBad ==
  \/ x.ndim # 2
  \/ indices.ndim # 1 \/ bin_ids.ndim # 1
  \/ bins.ndim # 1 \/ padded_bins.ndim # 1
  \/ op = "gather" /\ (indices.len # x.rows \/ bin_ids.len # x.rows)
  \/ op = "scatter" /\ bin_ids.len # indices.len
  \/ bins.len # padded_bins.len

ShapeErrorsRejected ==
  ShapeBad =>
    /\ pc = "call" \/ (pc = "raised" /\ err = "ValueError")
    /\ ~out.alloc
    /\ grid = 0
    /\ DOMAIN task = {}

ShapeErrorsRejectedWitness ==
  /\ pc = "raised" /\ err = "ValueError"
  /\ op = "gather"
  /\ x.ndim = 2 /\ indices.ndim = 1 /\ bin_ids.ndim = 1
  /\ bins.ndim = 1 /\ padded_bins.ndim = 1
  /\ indices.len = x.rows /\ bins.len = padded_bins.len
  /\ bin_ids.len # x.rows

(***************************************************************************)
(* C7.  Output sizing: a call that passes validation returns a matrix of   *)
(* padded_bins[E-1] rows (gather) or len(indices) rows (scatter) and as    *)
(* many columns as its input, whatever the other arguments hold.           *)
(***************************************************************************)
OutputSizing ==
  /\ (pc \in {"running", "returned"}) =>
       /\ out.alloc
       /\ out.cols = x.cols
       /\ out.rows = IF op = "gather" THEN LastOf(padded_bins) ELSE indices.len
       /\ DOMAIN OutData = 0..(out.rows * out.cols - 1)
  /\ (pc = "raised") => (ShapeBad \/ (op = "gather" /\ padded_bins.len = 0))

OutputSizingWitness ==
  /\ pc = "returned" /\ op = "scatter" /\ callNo = 1
  /\ indices.len = 2 /\ x.rows = 4 /\ x.cols = 3
  /\ out.rows = 2 /\ out.cols = 3

OutputSizingGatherWitness ==
  /\ pc = "returned" /\ op = "gather" /\ ~ValidMeta
  /\ x.rows = 2 /\ out.rows = 1

(***************************************************************************)
(* C8.  Empty input.                                                       *)
(***************************************************************************)
\* A call with no unpadded row whose bins and padded_bins have one length
\* (of at least one group) and are otherwise valid.
EmptyCall ==
  /\ ~ShapeBad
  /\ T = 0
  /\ E >= 1
  /\ op = "gather" => x.rows = 0
  /\ \A k \in 0..(E - 1) : bins.data[k] = 0
  /\ \A k \in 0..(E - 1) : padded_bins.data[k] >= PrevOf(padded_bins, k)

\* C8 as stated: with T = 0 both functions return a matrix of 0 rows and
\* raise nothing.
EmptyInputReturnsEmpty ==
  EmptyCall =>
    /\ pc # "raised"
    /\ pc = "returned" => out.rows = 0

\* C8 as amended: with T = 0 no task is dispatched and nothing is raised;
\* padded_scatter returns a matrix of 0 rows, and padded_gather returns the
\* zero matrix of padded_bins[E-1] rows, which has 0 rows only when
\* padded_bins[E-1] = 0.
EmptyInputSized ==
  EmptyCall =>
    /\ grid = 0
    /\ pc \in {"call", "running", "returned"}
    /\ pc = "returned" =>
         /\ out.rows = IF op = "gather" THEN LastOf(padded_bins) ELSE 0
         /\ \A a \in DOMAIN OutData : OutData[a] = 0

EmptyInputWitness ==
  /\ EmptyCall /\ pc = "returned" /\ op = "gather"
  /\ E = 2 /\ H = 1
  /\ padded_bins.data[0] = 0 /\ padded_bins.data[1] = 1
  /\ out.rows = 1

EmptyScatterWitness ==
  /\ EmptyCall /\ pc = "returned" /\ op = "scatter"
  /\ x.rows = 1 /\ out.rows = 0

(***************************************************************************)
(* C9.  Row placement and integrity of gather: with valid metadata the     *)
(* padded row (i - bins[k-1]) + padded_bins[k-1] of the result, k being    *)
(* bin_ids[i], equals the unpadded row indices[i] element for element; in  *)
(* the specification's example the rows come out as [1,1], [2,2], a zero   *)
(* row, [3,3], [4,4].                                                      *)
(***************************************************************************)
IsScenario1 ==
  /\ m0 = Scenario1.x
  /\ indices = Scenario1.indices /\ bin_ids = Scenario1.bin_ids
  /\ bins = Scenario1.bins /\ padded_bins = Scenario1.padded_bins

RowPlacement ==
  (pc = "returned" /\ op = "gather" /\ ValidMeta) =>
    /\ \A i \in 0..(T - 1) : \A c \in 0..(H - 1) :
         mem.b[BRow(i) * H + c] = x.data[indices.data[i] * H + c]
    /\ IsScenario1 =>
         Out = RowsMatrix(<<<<1, 1>>, <<2, 2>>, <<0, 0>>, <<3, 3>>, <<4, 4>>>>)

RowPlacementWitness ==
  /\ ValidMeta /\ op = "gather" /\ pc = "returned"
  /\ IsScenario1
  /\ out.rows = 5

(***************************************************************************)
(* C10.  Chunk-width independence of the per-row copy: a finished task has *)
(* run exactly ceil(H / BLOCK_X) rounds, has loaded every column 0..H-1 of *)
(* its source row once and stored it once to the same column of its        *)
(* destination row, no task touches a column >= H, and the result of a     *)
(* call with valid metadata does not depend on BLOCK_X.                    *)
(***************************************************************************)
ChunkIndependence ==
  Started =>
    /\ \A p \in DOMAIN task : \A n \in 1..Len(acc[p]) :
         (acc[p][n].addr - acc[p][n].base) \in 0..(H - 1)
    /\ \A p \in DOMAIN task :
         task[p].pc = "done" =>
           /\ task[p].i = CeilDiv(H, BLOCK_X)
           /\ Len(acc[p]) = 2 * H
           /\ \A c \in 0..(H - 1) :
                /\ Cardinality({n \in 1..Len(acc[p]) :
                      /\ acc[p][n].kind = "load"
                      /\ acc[p][n].buf = task[p].iptr.buf
                      /\ acc[p][n].addr = task[p].iptr.addr + c}) = 1
                /\ Cardinality({n \in 1..Len(acc[p]) :
                      /\ acc[p][n].kind = "store"
                      /\ acc[p][n].buf = task[p].optr.buf
                      /\ acc[p][n].addr = task[p].optr.addr + c}) = 1
    /\ \A p \in DOMAIN task :
         task[p].pc \notin {"init", "done"} => task[p].i < CeilDiv(H, BLOCK_X)
    /\ (pc = "returned" /\ ValidMeta) =>
         \A a \in DOMAIN OutData : OutData[a] = Expected[a]

ChunkIndependenceWitness ==
  /\ pc = "returned" /\ ValidMeta
  /\ H = 3 /\ BLOCK_X = 2 /\ T = 2
  /\ \A p \in DOMAIN task : task[p].pc = "done" /\ task[p].i = 2

====
